---------------------------- MODULE Spec2Model ----------------------------
(***************************************************************************)
(* Consensus analysis of crowd validations                                 *)
(* (01_analysis/scripts/analysis_with_consensus.py).                       *)
(*                                                                         *)
(* A validation record is a JSON object.  It is modelled as a record whose *)
(* fields hold what the code reads from it:                                *)
(*   remove_fragment        "true" | "false" | Absent                      *)
(*   title_validation, start_time_validation, end_time_validation          *)
(*                          the 'decision' of the nested object            *)
(*                          ("approve", "edit", another string), Absent    *)
(*                          when the object or its 'decision' is missing,  *)
(*                          Null when the key holds JSON null              *)
(*   concept_validation     [kind, actions]: kind "list" with the 'action' *)
(*                          of every entry, kind Absent (no such key),     *)
(*                          kind Null (JSON null)                          *)
(*   comment                a string, or Absent                            *)
(* Ratios are compared exactly: clean_votes / total >= n / d is computed   *)
(* as clean_votes * d >= n * total, which is what the float comparison of  *)
(* the code yields for the vote counts and thresholds considered here.     *)
(***************************************************************************)
EXTENDS Integers, Sequences, FiniteSets, TLC

VARIABLES pc, val, clean, validations, threshold, consensus,
          validation_map, enriched_map, todo, rows, files

vars == <<pc, val, clean, validations, threshold, consensus,
          validation_map, enriched_map, todo, rows, files>>

\* ------------------------------------------------------------------ bounds

\* Longest list of validations of one segment.
MaxVotes == 5
\* Longest concept_validation list of one record.
MaxConcepts == 2
\* Thresholds are explored in steps of 1 / ThresholdDen.
ThresholdDen == 10
\* Most validations in a validation_map handed to analyze_dataset.
MaxMapVotes == 4

\* Files in the two directories together.
MaxFiles == 3

\* ------------------------------------------------------------- record values

Absent == "<absent>"
Null == "<null>"

\* CONSENSUS_THRESHOLD = 0.6, as the fraction <<6, 10>>.
CONSENSUS_THRESHOLD == <<6, 10>>

Decisions == {"approve", "edit", "reject", Absent, Null}
Actions == {"keep", "remove", Absent}
Comments == {Absent, "", "  ", "ok", "too long"}

RECURSIVE SeqsUpTo(_, _)
SeqsUpTo(S, n) ==
    IF n = 0 THEN {<<>>}
    ELSE LET shorter == SeqsUpTo(S, n - 1)
         IN  shorter \cup {Append(s, x) : s \in shorter, x \in S}

ConceptList(actions) == [kind |-> "list", actions |-> actions]
NoConcepts == [kind |-> Absent, actions |-> <<>>]
NullConcepts == [kind |-> Null, actions |-> <<>>]

ConceptFields ==
    {NoConcepts, NullConcepts}
        \cup {ConceptList(a) : a \in SeqsUpTo(Actions, MaxConcepts)}

\* Every record shape the functions distinguish.
Records ==
    [remove_fragment : {"true", "false", Absent},
     title_validation : Decisions,
     start_time_validation : Decisions,
     end_time_validation : Decisions,
     concept_validation : ConceptFields,
     comment : Comments]

Rec(rf, t, s, e, c, m) ==
    [remove_fragment |-> rf, title_validation |-> t,
     start_time_validation |-> s, end_time_validation |-> e,
     concept_validation |-> c, comment |-> m]

\* --------------------------------------------------------- is_clean_validation

\* is_clean_validation rejecting only an 'edit' decision, so that an absent
\* decision passes.
is_clean_validation_edit_only(v) ==
    IF v.remove_fragment = "true" THEN "False"
    ELSE IF v.title_validation = Null THEN "AttributeError"
    ELSE IF v.title_validation = "edit" THEN "False"
    ELSE IF v.start_time_validation = Null THEN "AttributeError"
    ELSE IF v.start_time_validation = "edit" THEN "False"
    ELSE IF v.end_time_validation = Null THEN "AttributeError"
    ELSE IF v.end_time_validation = "edit" THEN "False"
    ELSE IF v.concept_validation.kind = Null THEN "TypeError"
    ELSE IF /\ v.concept_validation.kind = "list"
            /\ \E i \in DOMAIN v.concept_validation.actions :
                   v.concept_validation.actions[i] # "keep"
         THEN "False"
    ELSE "True"

\* is_clean_validation without the remove_fragment test.
is_clean_validation_no_remove(v) ==
    IF v.title_validation = Null THEN "AttributeError"
    ELSE IF v.title_validation # "approve" THEN "False"
    ELSE IF v.start_time_validation = Null THEN "AttributeError"
    ELSE IF v.start_time_validation # "approve" THEN "False"
    ELSE IF v.end_time_validation = Null THEN "AttributeError"
    ELSE IF v.end_time_validation # "approve" THEN "False"
    ELSE IF v.concept_validation.kind = Null THEN "TypeError"
    ELSE IF /\ v.concept_validation.kind = "list"
            /\ \E i \in DOMAIN v.concept_validation.actions :
                   v.concept_validation.actions[i] # "keep"
         THEN "False"
    ELSE "True"

\* is_clean_validation counting a comment against the record.
is_clean_validation_comment(v) ==
    IF v.remove_fragment = "true" THEN "False"
    ELSE IF v.title_validation = Null THEN "AttributeError"
    ELSE IF v.title_validation # "approve" THEN "False"
    ELSE IF v.start_time_validation = Null THEN "AttributeError"
    ELSE IF v.start_time_validation # "approve" THEN "False"
    ELSE IF v.end_time_validation = Null THEN "AttributeError"
    ELSE IF v.end_time_validation # "approve" THEN "False"
    ELSE IF v.concept_validation.kind = Null THEN "TypeError"
    ELSE IF /\ v.concept_validation.kind = "list"
            /\ \E i \in DOMAIN v.concept_validation.actions :
                   v.concept_validation.actions[i] # "keep"
         THEN "False"
    ELSE IF v.comment \notin {Absent, Null, ""} THEN "False"
    ELSE "True"

\* "True", "False", or the exception raised.
is_clean_validation(v) ==
    IF v.remove_fragment = "true" THEN "False"
    ELSE IF v.title_validation = Null THEN "AttributeError"
    ELSE IF v.title_validation # "approve" THEN "False"
    ELSE IF v.start_time_validation = Null THEN "AttributeError"
    ELSE IF v.start_time_validation # "approve" THEN "False"
    ELSE IF v.end_time_validation = Null THEN "AttributeError"
    ELSE IF v.end_time_validation # "approve" THEN "False"
    ELSE IF v.concept_validation.kind = Null THEN "TypeError"
    ELSE IF /\ v.concept_validation.kind = "list"
            /\ \E i \in DOMAIN v.concept_validation.actions :
                   v.concept_validation.actions[i] # "keep"
         THEN "False"
    ELSE "True"

\* ------------------------------------------------------- determine_consensus

\* record_issues with one REMOVE_CONCEPT per removed concept.
record_issues_per_concept(v) ==
    (IF v.remove_fragment = "true" THEN <<"REMOVE_FRAGMENT">> ELSE <<>>)
    \o (IF v.title_validation = "edit" THEN <<"EDIT_TITLE">> ELSE <<>>)
    \o (IF v.start_time_validation = "edit" THEN <<"EDIT_START">> ELSE <<>>)
    \o (IF v.end_time_validation = "edit" THEN <<"EDIT_END">> ELSE <<>>)
    \o [i \in 1..Cardinality({j \in DOMAIN v.concept_validation.actions :
                                 v.concept_validation.actions[j] = "remove"})
           |-> "REMOVE_CONCEPT"]

\* record_issues tagging every title decision other than 'approve'.
record_issues_title_not_approve(v) ==
    (IF v.remove_fragment = "true" THEN <<"REMOVE_FRAGMENT">> ELSE <<>>)
    \o (IF v.title_validation # "approve" THEN <<"EDIT_TITLE">> ELSE <<>>)
    \o (IF v.start_time_validation = "edit" THEN <<"EDIT_START">> ELSE <<>>)
    \o (IF v.end_time_validation = "edit" THEN <<"EDIT_END">> ELSE <<>>)
    \o (IF \E i \in DOMAIN v.concept_validation.actions :
               v.concept_validation.actions[i] = "remove"
        THEN <<"REMOVE_CONCEPT">> ELSE <<>>)

\* The tags one not-clean record adds to all_issues.
record_issues(v) ==
    (IF v.remove_fragment = "true" THEN <<"REMOVE_FRAGMENT">> ELSE <<>>)
    \o (IF v.title_validation = "edit" THEN <<"EDIT_TITLE">> ELSE <<>>)
    \o (IF v.start_time_validation = "edit" THEN <<"EDIT_START">> ELSE <<>>)
    \o (IF v.end_time_validation = "edit" THEN <<"EDIT_END">> ELSE <<>>)
    \o (IF \E i \in DOMAIN v.concept_validation.actions :
               v.concept_validation.actions[i] = "remove"
        THEN <<"REMOVE_CONCEPT">> ELSE <<>>)

\* Whether collecting the issues of a not-clean record raises: .get on a null
\* decision object, iteration over a null concept list.
record_issues_raise(v) ==
    \/ v.title_validation = Null
    \/ v.start_time_validation = Null
    \/ v.end_time_validation = Null
    \/ v.concept_validation.kind = Null

\* collect_issues keeping a tag once, however many records give it.
RECURSIVE collect_issues_distinct(_)
collect_issues_distinct(vs) ==
    IF vs = <<>> THEN <<>>
    ELSE LET rest == collect_issues_distinct(Tail(vs))
             mine == IF is_clean_validation(Head(vs)) # "True"
                     THEN record_issues(Head(vs)) ELSE <<>>
         IN  SelectSeq(mine, LAMBDA t : \A i \in DOMAIN rest : rest[i] # t)
                 \o rest

RECURSIVE collect_issues(_)
collect_issues(vs) ==
    IF vs = <<>> THEN <<>>
    ELSE (IF is_clean_validation(Head(vs)) # "True"
          THEN record_issues(Head(vs)) ELSE <<>>)
         \o collect_issues(Tail(vs))

comment_truthy(v) == v.comment \notin {Absent, Null, ""}

\* collect_comments taking the comment inside the not-clean branch only.
RECURSIVE collect_comments_not_clean(_)
collect_comments_not_clean(vs) ==
    IF vs = <<>> THEN <<>>
    ELSE (IF comment_truthy(Head(vs)) /\ is_clean_validation(Head(vs)) # "True"
          THEN <<Head(vs).comment>> ELSE <<>>)
         \o collect_comments_not_clean(Tail(vs))

RECURSIVE collect_comments(_)
collect_comments(vs) ==
    IF vs = <<>> THEN <<>>
    ELSE (IF comment_truthy(Head(vs)) THEN <<Head(vs).comment>> ELSE <<>>)
         \o collect_comments(Tail(vs))

\* consensus_status with strict comparisons.
consensus_status_strict(clean_votes, reject_votes, total, thr) ==
    IF clean_votes * thr[2] > thr[1] * total THEN "ACCEPTED"
    ELSE IF reject_votes * thr[2] > thr[1] * total THEN "REJECTED"
    ELSE "CONFLICT"

\* consensus_status testing REJECTED before ACCEPTED.
consensus_status_reject_first(clean_votes, reject_votes, total, thr) ==
    IF reject_votes * thr[2] >= thr[1] * total THEN "REJECTED"
    ELSE IF clean_votes * thr[2] >= thr[1] * total THEN "ACCEPTED"
    ELSE "CONFLICT"

\* The status decision of lines 113-118.
consensus_status(clean_votes, reject_votes, total, thr) ==
    IF clean_votes * thr[2] >= thr[1] * total THEN "ACCEPTED"
    ELSE IF reject_votes * thr[2] >= thr[1] * total THEN "REJECTED"
    ELSE "CONFLICT"

Count(seq, x) == Cardinality({i \in DOMAIN seq : seq[i] = x})

\* The keys of Counter(seq), in the order of their first occurrence.
RECURSIVE counter_keys(_, _)
counter_keys(seq, seen) ==
    IF seq = <<>> THEN <<>>
    ELSE IF Head(seq) \in seen THEN counter_keys(Tail(seq), seen)
    ELSE <<Head(seq)>> \o counter_keys(Tail(seq), seen \cup {Head(seq)})

\* is_dominant with a strict comparison.
is_dominant_strict(count, reject_votes) == 2 * count > reject_votes

\* is_dominant with the bound rounded down.
is_dominant_floor(count, reject_votes) == count >= reject_votes \div 2

\* v >= reject_votes * 0.5, as 2 * v >= reject_votes.
is_dominant(count, reject_votes) == 2 * count >= reject_votes

dominant_issues(all_issues, reject_votes) ==
    SelectSeq(counter_keys(all_issues, {}),
              LAMBDA k : is_dominant(Count(all_issues, k), reject_votes))

vote_split(clean_votes, reject_votes) ==
    ToString(clean_votes) \o " vs " \o ToString(reject_votes)

\* The exception determine_consensus raises on vs, "" when it returns.
consensus_exception(vs) ==
    LET cleanErr == {i \in DOMAIN vs :
                        is_clean_validation(vs[i]) \notin {"True", "False"}}
        issueErr == {i \in DOMAIN vs :
                        /\ is_clean_validation(vs[i]) = "False"
                        /\ record_issues_raise(vs[i])}
        Min(S) == CHOOSE i \in S : \A j \in S : i <= j
    IN  IF cleanErr # {} THEN is_clean_validation(vs[Min(cleanErr)])
        ELSE IF issueErr = {} THEN ""
        ELSE LET v == vs[Min(issueErr)]
             IN  IF \/ v.title_validation = Null
                    \/ v.start_time_validation = Null
                    \/ v.end_time_validation = Null
                 THEN "AttributeError" ELSE "TypeError"

\* determine_consensus taking the number of issue tags for the reject votes.
determine_consensus_reject_by_issues(vs, thr) ==
    LET total == Len(vs)
        clean_votes == Cardinality({i \in DOMAIN vs :
                                       is_clean_validation(vs[i]) = "True"})
        all_issues == collect_issues(vs)
        reject_votes == Len(all_issues)
    IN  IF total = 0
        THEN [status |-> "NO_DATA", issues |-> <<>>, comments |-> <<>>]
        ELSE IF consensus_exception(vs) # ""
        THEN [exception |-> consensus_exception(vs)]
        ELSE [status |-> consensus_status(clean_votes, reject_votes, total, thr),
              vote_split |-> vote_split(clean_votes, reject_votes),
              total_votes |-> total,
              dominant_issues |-> dominant_issues(all_issues, reject_votes),
              all_issues |-> all_issues,
              comments |-> collect_comments(vs)]

determine_consensus(vs, thr) ==
    LET total == Len(vs)
        clean_votes == Cardinality({i \in DOMAIN vs :
                                       is_clean_validation(vs[i]) = "True"})
        reject_votes == total - clean_votes
        all_issues == collect_issues(vs)
    IN  IF total = 0
        THEN [status |-> "NO_DATA", issues |-> <<>>, comments |-> <<>>]
        ELSE IF consensus_exception(vs) # ""
        THEN [exception |-> consensus_exception(vs)]
        ELSE [status |-> consensus_status(clean_votes, reject_votes, total, thr),
              vote_split |-> vote_split(clean_votes, reject_votes),
              total_votes |-> total,
              dominant_issues |-> dominant_issues(all_issues, reject_votes),
              all_issues |-> all_issues,
              comments |-> collect_comments(vs)]

\* ------------------------------------------------------------ analyze_dataset

RECURSIVE join(_, _)
\* sep.join(seq)
join(sep, seq) ==
    IF seq = <<>> THEN ""
    ELSE IF Len(seq) = 1 THEN seq[1]
    ELSE seq[1] \o sep \o join(sep, Tail(seq))

\* enriched_map.get(seg_id, {})
segment_meta(emap, seg_id) ==
    IF seg_id \in DOMAIN emap THEN emap[seg_id] ELSE [none |-> TRUE]

\* meta.get('text', '')[:50] keeps at most this many characters.
SnippetLen == 50

\* The row analyze_dataset appends for seg_id; it reads the keys 'status',
\* 'vote_split', 'dominant_issues' and 'comments' of the consensus.
dataset_row(seg_id, meta, c) ==
    [segment_id |-> seg_id,
     source_file |-> IF "source_file" \in DOMAIN meta
                     THEN meta.source_file ELSE "unknown",
     consensus_status |-> c.status,
     vote_split |-> c.vote_split,
     dominant_issues |-> join(", ", c.dominant_issues),
     comment_text |-> join(" | ", c.comments),
     start_time |-> IF "start" \in DOMAIN meta THEN meta.start ELSE Null,
     text_snippet |-> IF "text" \in DOMAIN meta
                      THEN SubSeq(meta.text, 1,
                                  IF Len(meta.text) < SnippetLen
                                  THEN Len(meta.text) ELSE SnippetLen)
                      ELSE <<>>]

\* The loop body raises when determine_consensus raised, or with KeyError
\* when the consensus lacks a key the row reads.
dataset_row_raises(c) ==
    \/ "exception" \in DOMAIN c
    \/ ~({"status", "vote_split", "dominant_issues", "comments"} \subseteq DOMAIN c)

\* --------------------------------- analysis_crowdsource_mismatches.py

\* len(comment) > 5
CommentLen == 5

\* val.get('comment', '')
comment_or_empty(v) == IF v.comment = Absent THEN "" ELSE v.comment

\* One 'CONCEPT_REMOVED' per concept entry with action 'remove'.
concept_removed_tags(v) ==
    [i \in 1..Cardinality({j \in DOMAIN v.concept_validation.actions :
                              v.concept_validation.actions[j] = "remove"})
        |-> "CONCEPT_REMOVED"]

\* The issues analyze_validations detects in one validation.
av_issues(v) ==
    (IF v.remove_fragment = "true" THEN <<"FRAGMENT_REMOVED">> ELSE <<>>)
    \o (IF v.start_time_validation = "edit"
        THEN <<"START_TIME_EDIT">> ELSE <<>>)
    \o (IF v.title_validation = "edit" THEN <<"TITLE_EDIT">> ELSE <<>>)
    \o concept_removed_tags(v)

\* .get('decision') on a null decision object, iteration over a null list.
av_exception(v) ==
    IF v.start_time_validation = Null \/ v.title_validation = Null
    THEN "AttributeError"
    ELSE IF v.concept_validation.kind = Null THEN "TypeError"
    ELSE IF v.comment = Null THEN "TypeError"
    ELSE ""

\* len(issues) > 0 or (len(comment) > 5)
av_is_rejected(issues, comment) ==
    Len(issues) > 0 \/ Len(comment) > CommentLen

\* The uri of every removed concept; the model's entries carry no uri.
removed_concepts(v, default) ==
    [i \in 1..Len(concept_removed_tags(v)) |-> default]

\* The row analyze_validations appends for one entry.
av_row(seg_id, v, original_seg) ==
    [segment_id |-> seg_id,
     user_id |-> Null,
     issues |-> av_issues(v),
     is_rejected |-> av_is_rejected(av_issues(v), comment_or_empty(v)),
     comment |-> comment_or_empty(v),
     removed_concepts |-> removed_concepts(v, Null),
     original_text |-> IF "text" \in DOMAIN original_seg
                       THEN original_seg.text ELSE <<>>,
     original_start |-> IF "start" \in DOMAIN original_seg
                        THEN original_seg.start ELSE Null,
     original_concepts |-> <<>>]

\* ------------------------------------------------------ initial_analysis.py

\* n spaces
RECURSIVE Spaces(_)
Spaces(n) == IF n = 0 THEN "" ELSE " " \o Spaces(n - 1)

\* comment and str(comment).strip(): a comment that is not only blanks.
comment_not_blank(m) ==
    m \notin {Absent, Null} /\ \A n \in 0..Len(m) : m # Spaces(n)

\* is_validation_clean without the strip() of the comment.
is_validation_clean_no_strip(v) ==
    IF is_clean_validation(v) # "True" THEN is_clean_validation(v)
    ELSE IF v.comment \notin {Absent, Null, ""} THEN "False"
    ELSE "True"

\* "True", "False", or the exception raised.
is_validation_clean(v) ==
    IF is_clean_validation(v) # "True" THEN is_clean_validation(v)
    ELSE IF comment_not_blank(v.comment) THEN "False"
    ELSE "True"

\* The issues analyze_discrepancies gives a validation that is not clean.
ad_issues(v) ==
    (IF v.remove_fragment = "true" THEN <<"FRAGMENT_REMOVED">> ELSE <<>>)
    \o (IF v.title_validation = "edit" THEN <<"TITLE_EDIT">> ELSE <<>>)
    \o (IF v.start_time_validation = "edit"
        THEN <<"START_TIME_EDIT">> ELSE <<>>)
    \o (IF v.end_time_validation = "edit" THEN <<"END_TIME_EDIT">> ELSE <<>>)
    \o concept_removed_tags(v)

\* The exception of one pass over a validation, "" when there is none.
ad_exception(v) ==
    IF is_validation_clean(v) \notin {"True", "False"}
    THEN is_validation_clean(v)
    ELSE IF is_validation_clean(v) = "True" THEN ""
    ELSE IF \/ v.title_validation = Null
            \/ v.start_time_validation = Null
            \/ v.end_time_validation = Null
    THEN "AttributeError"
    ELSE IF v.concept_validation.kind = Null THEN "TypeError"
    ELSE ""

\* original_text keeps the first 100 characters and adds "...".
OriginalTextLen == 100

\* The row analyze_discrepancies appends for a validation that is not clean.
ad_row(seg_id, v, segment_meta_) ==
    LET text == IF "text" \in DOMAIN segment_meta_
                THEN segment_meta_.text ELSE <<>>
        num(k) == IF k \in DOMAIN segment_meta_ THEN segment_meta_[k] ELSE 0
    IN  [segment_id |-> seg_id,
         user_id |-> Null,
         issues |-> ad_issues(v),
         comment |-> comment_or_empty(v),
         segment_text_len |-> Len(text),
         segment_duration |-> num("end") - num("start"),
         removed_concepts |-> removed_concepts(v, "unknown"),
         original_text |->
             SubSeq(text, 1, IF Len(text) < OriginalTextLen
                             THEN Len(text) ELSE OriginalTextLen)
                 \o <<".", ".", ".">>]

\* The rows of the inner loop of analyze_discrepancies: one row for every
\* validation that is not clean, in the order of the list.
RECURSIVE ad_rows(_, _, _)
ad_rows(seg_id, vals, segment_meta_) ==
    IF vals = <<>> THEN <<>>
    ELSE (IF is_validation_clean(Head(vals)) = "True" THEN <<>>
          ELSE <<ad_row(seg_id, Head(vals), segment_meta_)>>)
         \o ad_rows(seg_id, Tail(vals), segment_meta_)

\* ad_segment_rows with enriched_map.get(seg_id, {}) and no test of it.
ad_segment_rows_default_meta(emap, seg_id, vals) ==
    ad_rows(seg_id, vals, segment_meta(emap, seg_id))

\* One pass of the outer loop: no row when enriched_map.get(seg_id) is
\* None or an empty dict.
ad_segment_rows(emap, seg_id, vals) ==
    IF seg_id \notin DOMAIN emap \/ DOMAIN emap[seg_id] = {} THEN <<>>
    ELSE ad_rows(seg_id, vals, emap[seg_id])

\* The exception of that pass, "" when there is none.
ad_segment_exception(emap, seg_id, vals) ==
    IF seg_id \notin DOMAIN emap \/ DOMAIN emap[seg_id] = {} THEN ""
    ELSE IF \E i \in DOMAIN vals : ad_exception(vals[i]) # ""
    THEN ad_exception(vals[CHOOSE i \in DOMAIN vals :
                               /\ ad_exception(vals[i]) # ""
                               /\ \A j \in 1..(i - 1) :
                                     ad_exception(vals[j]) = ""])
    ELSE ""

\* ------------------------------------------------------------------- inputs

CleanRec ==
    Rec("false", "approve", "approve", "approve", ConceptList(<<"keep">>), "")
CleanCommentRec ==
    Rec(Absent, "approve", "approve", "approve", NoConcepts, "too long")
RemoveFragmentRec ==
    Rec("true", "approve", "approve", "approve", NoConcepts, "ok")
RemoveEditRec ==
    Rec("true", "edit", "approve", "approve", ConceptList(<<"keep">>), Absent)
StartEditRec ==
    Rec("false", "approve", "edit", "approve", ConceptList(<<"keep">>), Absent)
TitleAbsentRec ==
    Rec("false", Absent, "approve", "approve", ConceptList(<<"keep">>), Absent)
TitleEndEditRec ==
    Rec("false", "edit", "approve", "edit",
        ConceptList(<<"keep", "remove">>), "ok")
TwoRemovedRec ==
    Rec(Absent, "approve", "approve", "approve",
        ConceptList(<<"remove", "remove">>), "")

\* The validations a segment's list is built from.
Pool ==
    {CleanRec, CleanCommentRec, RemoveFragmentRec, StartEditRec,
     TitleAbsentRec, TitleEndEditRec, TwoRemovedRec}
\* The validations of the runs that vary the threshold.
PoolThr == {CleanRec, RemoveFragmentRec, RemoveEditRec, TitleAbsentRec}
\* The validations of the runs over a whole validation_map.
PoolMap == {CleanRec, RemoveFragmentRec}

\* The validations of the runs about comments: clean and not-clean records
\* with every kind of comment.
PoolComments ==
    {Rec("false", "approve", "approve", "approve", NoConcepts, m) :
        m \in {Absent, "", "  ", "too long"}}
    \cup {Rec("true", "approve", "approve", "approve", NoConcepts, m) :
             m \in {"", "ok"}}

\* Comments around the length analyze_validations tests.
CommentsLen == {Absent, Null, "", "  ", "12345", "123456"}

\* Every record shape, for the analyses of single validations.
RecordsVariants ==
    [remove_fragment : {"true", "false", Absent},
     title_validation : Decisions,
     start_time_validation : Decisions,
     end_time_validation : Decisions,
     concept_validation : ConceptFields,
     comment : CommentsLen]

\* The validations of the runs of analyze_discrepancies over a map: clean,
\* clean but for a comment, not clean.
PoolDiscrepancies == {CleanRec, CleanCommentRec, RemoveFragmentRec}

SegIds == {"s1", "s2"}

\* Thresholds in (0, 1], and the configured one.
Thresholds ==
    {<<n, ThresholdDen>> : n \in 1..ThresholdDen} \cup {CONSENSUS_THRESHOLD}

NoResult == [pending |-> TRUE]
EmptyMap == [s \in {} |-> <<>>]

\* A Segment Store that knows s1 and not s2; a text is the sequence of its
\* characters.
SomeEnriched ==
    [s \in {"s1"} |->
        [segment_id |-> s, source_file |-> "a.json", start |-> 5, end |-> 65,
         text |-> <<"I", " ", "w", "a", "s", " ", "b", "o", "r", "n">>]]

\* ------------------------------------------------------------------ loaders

\* What a *.json file of a directory may hold: a file that cannot be read,
\* text that is not JSON, a JSON number, a JSON object, a JSON list.
Unreadable == [kind |-> "unreadable"]
InvalidJson == [kind |-> "invalid"]
JsonNumber == [kind |-> "number"]
JsonObject(o) == [kind |-> "object", obj |-> o]
JsonList(l) == [kind |-> "list", items |-> l]

Seg(s) == [segment_id |-> s, start |-> 5, end |-> 65,
           text |-> <<"I", " ", "w", "a", "s">>]
SegNoId == [start |-> 7, end |-> 9, text |-> <<"n", "o">>]

EnrichedFiles ==
    {Unreadable, InvalidJson, JsonNumber, JsonObject(SegNoId),
     JsonList(<<>>), JsonList(<<SegNoId, Seg("s2")>>)}
    \cup {JsonObject(Seg(s)) : s \in SegIds}

\* The falsy values of val.get('segment_id'), and the segment ids.
ValIds == SegIds \cup {Absent, ""}
UserIds == {"u1", "u2"}

\* A validation whose title decision object is JSON null.
NullTitleRec ==
    Rec("false", Null, "approve", "approve", NoConcepts, Absent)

ValidationFiles ==
    {Unreadable, InvalidJson, JsonList(<<>>),
     JsonObject([segment_id |-> "s1", user_id |-> "u1"] @@ NullTitleRec)}
    \cup {JsonObject([segment_id |-> s, user_id |-> u] @@ r) :
             s \in ValIds, u \in UserIds, r \in PoolMap}

\* os.path.basename(filepath) of the n-th file of a directory listing.
basename(dir, n) == dir \o ToString(n) \o ".json"

\* The loop over the segments of one enriched file: a segment with the key
\* 'segment_id' gets the file name under name_key and is stored, the last
\* segment of an id wins.
RECURSIVE store_segments(_, _, _, _)
store_segments(emap, segs, name_key, filename) ==
    IF segs = <<>> THEN emap
    ELSE LET seg == Head(segs)
             stored == IF "segment_id" \in DOMAIN seg
                       THEN (seg.segment_id :> ((name_key :> filename) @@ seg))
                                @@ emap
                       ELSE emap
         IN  store_segments(stored, Tail(segs), name_key, filename)

\* The segments load_data_maps iterates over: data if it is a list, else
\* [data]; nothing when the file raises before the loop ('segment_id' in 5
\* raises TypeError), every exception being caught.
segments_of(content) ==
    CASE content.kind = "object" -> <<content.obj>>
      [] content.kind = "list" -> content.items
      [] OTHER -> <<>>

\* The exception load_enriched_segments of initial_analysis.py lets through:
\* open() is outside the try, and only json.JSONDecodeError is caught.
ia_enriched_exception(content) ==
    CASE content.kind = "unreadable" -> "OSError"
      [] content.kind = "number" -> "TypeError"
      [] OTHER -> ""

\* The exception load_validations of initial_analysis.py lets through.
ia_validation_exception(content) ==
    CASE content.kind = "unreadable" -> "OSError"
      [] content.kind = "list" -> "AttributeError"
      [] OTHER -> ""

\* if seg_id: of a loaded validation.
seg_id_truthy(content) ==
    /\ content.kind = "object"
    /\ content.obj.segment_id \notin {Absent, Null, ""}

\* store_validation keeping one validation per user_id and segment.
store_validation_by_user(vmap, content) ==
    IF ~seg_id_truthy(content) THEN vmap
    ELSE LET seg_id == content.obj.segment_id
             old == IF seg_id \in DOMAIN vmap THEN vmap[seg_id] ELSE <<>>
         IN  (seg_id :> Append(SelectSeq(old,
                        LAMBDA v : v.user_id # content.obj.user_id),
                               content.obj))
                 @@ vmap

\* store_validation without the test of seg_id.
store_validation_any_id(vmap, content) ==
    IF content.kind # "object" THEN vmap
    ELSE LET seg_id == content.obj.segment_id
         IN  IF seg_id \in DOMAIN vmap
             THEN [vmap EXCEPT ![seg_id] = Append(@, content.obj)]
             ELSE vmap @@ (seg_id :> <<content.obj>>)

\* validation_map after one validation file: a validation with a truthy
\* segment_id is appended to the list of its segment.
store_validation(vmap, content) ==
    IF ~seg_id_truthy(content) THEN vmap
    ELSE LET seg_id == content.obj.segment_id
         IN  IF seg_id \in DOMAIN vmap
             THEN [vmap EXCEPT ![seg_id] = Append(@, content.obj)]
             ELSE vmap @@ (seg_id :> <<content.obj>>)

\* The keys of the map in the order of their insertion.
keys_after(keys, vmap_after) ==
    keys \o (IF \E k \in DOMAIN vmap_after :
                   \A i \in DOMAIN keys : keys[i] # k
             THEN <<CHOOSE k \in DOMAIN vmap_after :
                        \A i \in DOMAIN keys : keys[i] # k>>
             ELSE <<>>)

\* The files of one directory read so far.
files_of(dir) == SelectSeq(files, LAMBDA f : f.dir = dir)

\* ------------------------------------------------------------------ actions

\* validation_map[seg_id].append(val), for the list of one segment.
append_validation(P) ==
    /\ pc = "collect"
    /\ Len(validations) < MaxVotes
    /\ \E r \in P : validations' = Append(validations, r)
    /\ UNCHANGED <<pc, val, clean, threshold, consensus,
                   validation_map, todo, rows, enriched_map, files>>

\* call_determine_consensus taking the clean validations out of the list.
call_determine_consensus_consuming ==
    /\ pc = "collect"
    /\ consensus' = determine_consensus(validations, threshold)
    /\ validations' = SelectSeq(validations,
                           LAMBDA v : is_clean_validation(v) # "True")
    /\ pc' = "evaluated"
    /\ UNCHANGED <<val, clean, threshold,
                   validation_map, todo, rows, enriched_map, files>>

\* consensus = determine_consensus(validations)
call_determine_consensus ==
    /\ pc = "collect"
    /\ consensus' = determine_consensus(validations, threshold)
    /\ pc' = "evaluated"
    /\ UNCHANGED <<val, clean, validations, threshold,
                   validation_map, todo, rows, enriched_map, files>>

\* is_clean_validation(val)
call_is_clean_validation ==
    /\ pc = "call"
    /\ clean' = is_clean_validation(val)
    /\ pc' = "return"
    /\ UNCHANGED <<val, validations, threshold, consensus,
                   validation_map, todo, rows, enriched_map, files>>

\* The caller's (or load_data_maps') filling of the map: a new key gets a
\* list, the validation is appended to the list of its key.
map_append ==
    /\ pc = "build"
    /\ Cardinality({<<s, i>> \in SegIds \X (1..MaxMapVotes) :
                       s \in DOMAIN validation_map
                       /\ i \in DOMAIN validation_map[s]}) < MaxMapVotes
    /\ \E s \in SegIds, r \in PoolMap :
          IF s \in DOMAIN validation_map
          THEN /\ validation_map' =
                      [validation_map EXCEPT ![s] = Append(@, r)]
               /\ todo' = todo
          ELSE /\ validation_map' = validation_map @@ (s :> <<r>>)
               /\ todo' = Append(todo, s)
    /\ UNCHANGED <<pc, val, clean, validations, threshold, consensus,
                   rows, enriched_map, files>>

\* One pass of the loop of analyze_validations, for the entry of segment s1
\* whose 'segment_validation' is val.
analyze_validations_entry ==
    /\ pc = "entry"
    /\ IF av_exception(val) # ""
       THEN pc' = "raised" /\ rows' = rows
       ELSE /\ rows' = Append(rows,
                 av_row("s1", val, segment_meta(enriched_map, "s1")))
            /\ pc' = "validations_analyzed"
    /\ UNCHANGED <<val, clean, validations, threshold, consensus,
                   validation_map, todo, enriched_map, files>>

\* One pass of the inner loop of analyze_discrepancies, for the validation
\* val of segment s1.
analyze_discrepancies_validation ==
    /\ pc = "entry"
    /\ IF ad_exception(val) # ""
       THEN pc' = "raised" /\ rows' = rows
       ELSE /\ rows' = IF is_validation_clean(val) = "True" THEN rows
                       ELSE Append(rows, ad_row("s1", val, enriched_map["s1"]))
            /\ pc' = "discrepancies_analyzed"
    /\ UNCHANGED <<val, clean, validations, threshold, consensus,
                   validation_map, todo, enriched_map, files>>

\* analyze_dataset(enriched_map, validation_map) is entered.
analyze_dataset_call ==
    /\ pc = "build"
    /\ pc' = "analyze"
    /\ rows' = <<>>
    /\ UNCHANGED <<val, clean, validations, threshold, consensus,
                   validation_map, todo, enriched_map, files>>

\* One pass of the loop over validation_map.items().
analyze_dataset_row ==
    /\ pc = "analyze"
    /\ todo # <<>>
    /\ LET seg_id == Head(todo)
           c == determine_consensus(validation_map[seg_id], threshold)
       IN  /\ consensus' = c
           /\ IF dataset_row_raises(c)
              THEN /\ pc' = "raised"
                   /\ UNCHANGED <<rows, todo>>
              ELSE /\ rows' = Append(rows,
                        dataset_row(seg_id, segment_meta(enriched_map, seg_id), c))
                   /\ todo' = Tail(todo)
                   /\ pc' = pc
    /\ UNCHANGED <<val, clean, validations, threshold,
                   validation_map, enriched_map, files>>

\* return pd.DataFrame(rows)
analyze_dataset_return ==
    /\ pc = "analyze"
    /\ todo = <<>>
    /\ pc' = "done"
    /\ UNCHANGED <<val, clean, validations, threshold, consensus,
                   validation_map, todo, rows, enriched_map, files>>

\* load_data_maps reads one enriched file; every exception skips the file.
load_enriched_file ==
    /\ pc = "load_enriched"
    /\ Len(files) < MaxFiles
    /\ \E content \in EnrichedFiles :
          LET filename == basename("enriched", Len(files_of("enriched")) + 1)
          IN  /\ files' = Append(files, [dir |-> "enriched",
                                         name |-> filename,
                                         content |-> content])
              /\ enriched_map' = store_segments(enriched_map,
                                     segments_of(content),
                                     "source_file", filename)
    /\ UNCHANGED <<pc, val, clean, validations, threshold, consensus,
                   validation_map, todo, rows>>

\* The loop over enriched_files ends.
load_enriched_done ==
    /\ pc = "load_enriched"
    /\ pc' = "load_validations"
    /\ UNCHANGED <<val, clean, validations, threshold, consensus,
                   validation_map, enriched_map, todo, rows, files>>

\* load_data_maps reads one validation file; every exception skips the file.
load_validation_file ==
    /\ pc = "load_validations"
    /\ Len(files) < MaxFiles
    /\ \E content \in ValidationFiles :
          /\ files' = Append(files,
                 [dir |-> "validations",
                  name |-> basename("validations",
                               Len(files_of("validations")) + 1),
                  content |-> content])
          /\ validation_map' = store_validation(validation_map, content)
          /\ todo' = keys_after(todo, validation_map')
    /\ UNCHANGED <<pc, val, clean, validations, threshold, consensus,
                   enriched_map, rows>>

\* return enriched_map, validation_map
load_data_maps_return ==
    /\ pc = "load_validations"
    /\ pc' = "build"
    /\ UNCHANGED <<val, clean, validations, threshold, consensus,
                   validation_map, enriched_map, todo, rows, files>>

\* load_enriched_segments of initial_analysis.py reads one file.
ia_load_enriched_file ==
    /\ pc = "ia_load_enriched"
    /\ Len(files) < MaxFiles
    /\ \E content \in EnrichedFiles :
          LET filename == basename("enriched", Len(files_of("enriched")) + 1)
          IN  /\ files' = Append(files, [dir |-> "enriched",
                                         name |-> filename,
                                         content |-> content])
              /\ IF ia_enriched_exception(content) # ""
                 THEN pc' = "raised" /\ enriched_map' = enriched_map
                 ELSE /\ pc' = pc
                      /\ enriched_map' = store_segments(enriched_map,
                                             segments_of(content),
                                             "source_filename", filename)
    /\ UNCHANGED <<val, clean, validations, threshold, consensus,
                   validation_map, todo, rows>>

\* return enriched_map
ia_load_enriched_return ==
    /\ pc = "ia_load_enriched"
    /\ pc' = "ia_load_validations"
    /\ UNCHANGED <<val, clean, validations, threshold, consensus,
                   validation_map, enriched_map, todo, rows, files>>

\* load_validations of initial_analysis.py reads one file.
ia_load_validation_file ==
    /\ pc = "ia_load_validations"
    /\ Len(files) < MaxFiles
    /\ \E content \in ValidationFiles :
          /\ files' = Append(files,
                 [dir |-> "validations",
                  name |-> basename("validations",
                               Len(files_of("validations")) + 1),
                  content |-> content])
          /\ IF ia_validation_exception(content) # ""
             THEN /\ pc' = "raised"
                  /\ UNCHANGED <<validation_map, todo>>
             ELSE /\ pc' = pc
                  /\ validation_map' = store_validation(validation_map, content)
                  /\ todo' = keys_after(todo, validation_map')
    /\ UNCHANGED <<val, clean, validations, threshold, consensus,
                   enriched_map, rows>>

\* return validation_map
ia_load_validations_return ==
    /\ pc = "ia_load_validations"
    /\ pc' = "ia_loaded"
    /\ UNCHANGED <<val, clean, validations, threshold, consensus,
                   validation_map, enriched_map, todo, rows, files>>

\* The filling of the map handed to analyze_discrepancies and to
\* analyze_dataset.
discrepancy_map_append ==
    /\ pc = "build"
    /\ Cardinality({<<s, i>> \in SegIds \X (1..MaxMapVotes) :
                       s \in DOMAIN validation_map
                       /\ i \in DOMAIN validation_map[s]}) < MaxMapVotes
    /\ \E s \in SegIds, r \in PoolDiscrepancies :
          IF s \in DOMAIN validation_map
          THEN /\ validation_map' =
                      [validation_map EXCEPT ![s] = Append(@, r)]
               /\ todo' = todo
          ELSE /\ validation_map' = validation_map @@ (s :> <<r>>)
               /\ todo' = Append(todo, s)
    /\ UNCHANGED <<pc, val, clean, validations, threshold, consensus,
                   rows, enriched_map, files>>

\* analyze_discrepancies(enriched_map, validation_map) is entered.
analyze_discrepancies_call ==
    /\ pc = "build"
    /\ pc' = "ia_analyze"
    /\ rows' = <<>>
    /\ UNCHANGED <<val, clean, validations, threshold, consensus,
                   validation_map, todo, enriched_map, files>>

\* One pass of the loop over validation_map.items().
analyze_discrepancies_segment ==
    /\ pc = "ia_analyze"
    /\ todo # <<>>
    /\ LET seg_id == Head(todo)
       IN  IF ad_segment_exception(enriched_map, seg_id,
                                   validation_map[seg_id]) # ""
           THEN /\ pc' = "raised"
                /\ UNCHANGED <<rows, todo>>
           ELSE /\ rows' = rows \o ad_segment_rows(enriched_map, seg_id,
                                                   validation_map[seg_id])
                /\ todo' = Tail(todo)
                /\ pc' = pc
    /\ UNCHANGED <<val, clean, validations, threshold, consensus,
                   validation_map, enriched_map, files>>

\* return pd.DataFrame(data_rows)
analyze_discrepancies_return ==
    /\ pc = "ia_analyze"
    /\ todo = <<>>
    /\ pc' = "ia_done"
    /\ UNCHANGED <<val, clean, validations, threshold, consensus,
                   validation_map, todo, rows, enriched_map, files>>

\* ----------------------------------------------------------- specifications

Idle ==
    /\ val = CleanRec
    /\ clean = ""
    /\ validations = <<>>
    /\ consensus = NoResult
    /\ validation_map = EmptyMap
    /\ todo = <<>>
    /\ rows = <<>>
    /\ files = <<>>
    /\ enriched_map = SomeEnriched

\* The validations of one segment, evaluated at the configured threshold.
Init ==
    /\ pc = "collect"
    /\ threshold = CONSENSUS_THRESHOLD
    /\ Idle

Next ==
    \/ append_validation(Pool)
    \/ call_determine_consensus

Spec == Init /\ [][Next]_vars

\* The same, for every threshold.
InitThr ==
    /\ pc = "collect"
    /\ threshold \in Thresholds
    /\ Idle

NextThr ==
    \/ append_validation(PoolThr)
    \/ call_determine_consensus

SpecThr == InitThr /\ [][NextThr]_vars

\* The same at the configured threshold, for records that differ in their
\* comments.
NextComments ==
    \/ append_validation(PoolComments)
    \/ call_determine_consensus

SpecComments == Init /\ [][NextComments]_vars

\* is_clean_validation on every record shape.
InitClean ==
    /\ pc = "call"
    /\ threshold = CONSENSUS_THRESHOLD
    /\ val \in Records
    /\ clean = ""
    /\ validations = <<>>
    /\ consensus = NoResult
    /\ validation_map = EmptyMap
    /\ todo = <<>>
    /\ rows = <<>>
    /\ files = <<>>
    /\ enriched_map = SomeEnriched

NextClean == call_is_clean_validation

SpecClean == InitClean /\ [][NextClean]_vars

\* The analyses of single validations, on every record shape.
InitVariants ==
    /\ pc = "entry"
    /\ threshold = CONSENSUS_THRESHOLD
    /\ val \in RecordsVariants
    /\ clean = ""
    /\ validations = <<>>
    /\ consensus = NoResult
    /\ validation_map = EmptyMap
    /\ todo = <<>>
    /\ rows = <<>>
    /\ files = <<>>
    /\ enriched_map = SomeEnriched

NextVariants ==
    \/ analyze_validations_entry
    \/ analyze_discrepancies_validation

SpecVariants == InitVariants /\ [][NextVariants]_vars

\* analyze_dataset over a validation_map: the map load_data_maps starts
\* from is empty; a caller's map may hold keys with an empty list.
InitMap ==
    /\ pc = "build"
    /\ threshold = CONSENSUS_THRESHOLD
    /\ val = CleanRec
    /\ clean = ""
    /\ validations = <<>>
    /\ consensus = NoResult
    /\ \E S \in SUBSET SegIds :
          /\ validation_map = [s \in S |-> <<>>]
          /\ todo \in {q \in SeqsUpTo(S, Cardinality(S)) :
                          Len(q) = Cardinality(S)
                          /\ \A s \in S : \E i \in DOMAIN q : q[i] = s}
    /\ rows = <<>>
    /\ files = <<>>
    /\ enriched_map = SomeEnriched

NextMap ==
    \/ map_append
    \/ analyze_dataset_call
    \/ analyze_dataset_row
    \/ analyze_dataset_return

SpecMap == InitMap /\ [][NextMap]_vars

\* The loaders of analysis_with_consensus.py, followed by analyze_dataset,
\* and the loaders of initial_analysis.py, over the files of two directories.
InitLoad ==
    /\ pc \in {"load_enriched", "ia_load_enriched"}
    /\ threshold = CONSENSUS_THRESHOLD
    /\ val = CleanRec
    /\ clean = ""
    /\ validations = <<>>
    /\ consensus = NoResult
    /\ validation_map = EmptyMap
    /\ enriched_map = EmptyMap
    /\ todo = <<>>
    /\ rows = <<>>
    /\ files = <<>>

NextLoad ==
    \/ load_enriched_file
    \/ load_enriched_done
    \/ load_validation_file
    \/ load_data_maps_return
    \/ ia_load_enriched_file
    \/ ia_load_enriched_return
    \/ ia_load_validation_file
    \/ ia_load_validations_return
    \/ analyze_dataset_call
    \/ analyze_dataset_row
    \/ analyze_dataset_return

SpecLoad == InitLoad /\ [][NextLoad]_vars

\* analyze_discrepancies and analyze_dataset over the same maps: a segment
\* map that knows s1, and s2 either not at all or with empty metadata.
InitDiscrepancies ==
    /\ pc = "build"
    /\ threshold = CONSENSUS_THRESHOLD
    /\ val = CleanRec
    /\ clean = ""
    /\ validations = <<>>
    /\ consensus = NoResult
    /\ validation_map = EmptyMap
    /\ todo = <<>>
    /\ rows = <<>>
    /\ files = <<>>
    /\ enriched_map \in {SomeEnriched, SomeEnriched @@ ("s2" :> <<>>)}

NextDiscrepancies ==
    \/ discrepancy_map_append
    \/ analyze_discrepancies_call
    \/ analyze_discrepancies_segment
    \/ analyze_discrepancies_return
    \/ analyze_dataset_call
    \/ analyze_dataset_row
    \/ analyze_dataset_return

SpecDiscrepancies == InitDiscrepancies /\ [][NextDiscrepancies]_vars

\* --------------------------------------------------------------- properties

\* determine_consensus has returned a result for a non-empty list.
Evaluated ==
    /\ pc = "evaluated"
    /\ validations # <<>>
    /\ "vote_split" \in DOMAIN consensus

IsClean(v) == is_clean_validation(v) = "True"
NumClean(vs) == Cardinality({i \in DOMAIN vs : IsClean(vs[i])})
NumNotClean(vs) == Len(vs) - NumClean(vs)
Tags(seq) == {seq[i] : i \in DOMAIN seq}

\* The two counts a vote split "<clean> vs <reject>" was formatted from.
SplitCounts(c) ==
    {<<a, b>> \in (0..c.total_votes) \X (0..c.total_votes) :
        c.vote_split = ToString(a) \o " vs " \o ToString(b)}
CleanVotesOf(c) == (CHOOSE ab \in SplitCounts(c) : TRUE)[1]
RejectVotesOf(c) == (CHOOSE ab \in SplitCounts(c) : TRUE)[2]

\* a < b, for thresholds as fractions.
LessThr(a, b) == a[1] * b[2] < b[1] * a[2]
AtLeastHalf(t) == 2 * t[1] >= t[2]
StatusAt(vs, t) == determine_consensus(vs, t).status

\* C1, as claimed: for a fixed record sequence and thresholds t1 < t2, the
\* status at t2 is the status at t1 or CONFLICT.
C1_ThresholdMonotone ==
    Evaluated =>
        \A t2 \in Thresholds :
            LessThr(threshold, t2) =>
                StatusAt(validations, t2) \in {consensus.status, "CONFLICT"}

\* C1, amended: raising the threshold keeps CONFLICT, never turns REJECTED
\* into ACCEPTED, and turns ACCEPTED into REJECTED only from a threshold
\* below 0.5; from a threshold of at least 0.5 the status stays or becomes
\* CONFLICT.
C1_ThresholdMonotoneAmended ==
    Evaluated =>
        \A t2 \in Thresholds :
            LessThr(threshold, t2) =>
                LET s1 == consensus.status
                    s2 == StatusAt(validations, t2)
                IN  /\ s1 = "CONFLICT" => s2 = "CONFLICT"
                    /\ s1 = "REJECTED" => s2 \in {"REJECTED", "CONFLICT"}
                    /\ s1 = "ACCEPTED" /\ s2 = "REJECTED"
                           => ~AtLeastHalf(threshold)
                    /\ AtLeastHalf(threshold) => s2 \in {s1, "CONFLICT"}

\* C1 witness: an ACCEPTED status at 0.6 that a higher threshold turns
\* into CONFLICT.
C1_Witness ==
    /\ Evaluated
    /\ threshold = CONSENSUS_THRESHOLD
    /\ consensus.status = "ACCEPTED"
    /\ \E t2 \in Thresholds :
          LessThr(threshold, t2) /\ StatusAt(validations, t2) = "CONFLICT"

\* C2: on a non-empty list the status is ACCEPTED when
\* cleanVotes / total >= threshold, else REJECTED when
\* rejectVotes / total >= threshold, else CONFLICT.
C2_StatusRule ==
    Evaluated =>
        LET total == Len(validations)
            cv == NumClean(validations)
            rv == total - cv
            cleanOk == cv * threshold[2] >= threshold[1] * total
            rejectOk == rv * threshold[2] >= threshold[1] * total
        IN  /\ cleanOk => consensus.status = "ACCEPTED"
            /\ ~cleanOk /\ rejectOk => consensus.status = "REJECTED"
            /\ ~cleanOk /\ ~rejectOk => consensus.status = "CONFLICT"

\* C2 witness: 2 clean and 2 not-clean records at 0.6 give CONFLICT.
C2_Witness ==
    /\ Evaluated
    /\ threshold = CONSENSUS_THRESHOLD
    /\ Len(validations) = 4
    /\ NumClean(validations) = 2
    /\ consensus.status = "CONFLICT"

\* The five conditions of a clean record.
CleanConditions(v) ==
    /\ v.remove_fragment # "true"
    /\ v.title_validation = "approve"
    /\ v.start_time_validation = "approve"
    /\ v.end_time_validation = "approve"
    /\ \A i \in DOMAIN v.concept_validation.actions :
           v.concept_validation.actions[i] = "keep"

\* C3: is_clean_validation is true exactly when remove_fragment is not
\* true, the three decisions are 'approve' and every concept entry is kept
\* (the concept list being a list, empty or missing).
C3_CleanIff ==
    (pc = "return" /\ val.concept_validation.kind # Null) =>
        (clean = "True" <=> CleanConditions(val))

\* C3 witness: a record without remove_fragment and without a concept list
\* is classified clean.
C3_Witness ==
    /\ pc = "return"
    /\ val.remove_fragment = Absent
    /\ val.concept_validation = NoConcepts
    /\ clean = "True"

\* C4: for the empty list determine_consensus returns NO_DATA with
\* totalVotes = 0 and empty dominantIssues, allIssues and comments.
C4_EmptyResult ==
    (pc = "evaluated" /\ validations = <<>>) =>
        /\ "status" \in DOMAIN consensus
        /\ consensus.status = "NO_DATA"
        /\ {"total_votes", "dominant_issues", "all_issues", "comments"}
               \subseteq DOMAIN consensus
        /\ consensus.total_votes = 0
        /\ consensus.dominant_issues = <<>>
        /\ consensus.all_issues = <<>>
        /\ consensus.comments = <<>>

\* C5: analyze_dataset never raises, whatever the length of a key's list,
\* and returns one row per key with the status and a vote split
\* "<cleanVotes> vs <rejectVotes>" that adds up to the votes of the key.
C5_DatasetCompletes ==
    /\ pc # "raised"
    /\ pc = "done" =>
          /\ Len(rows) = Cardinality(DOMAIN validation_map)
          /\ \A s \in DOMAIN validation_map :
                \E i \in DOMAIN rows :
                    /\ rows[i].segment_id = s
                    /\ rows[i].consensus_status
                           \in {"NO_DATA", "ACCEPTED", "REJECTED", "CONFLICT"}
                    /\ \E a, b \in 0..Len(validation_map[s]) :
                           /\ a + b = Len(validation_map[s])
                           /\ rows[i].vote_split
                                  = ToString(a) \o " vs " \o ToString(b)

\* C6: dominant_issues holds exactly the distinct tags of all_issues that
\* occur at least rejectVotes * 0.5 times, each once.
C6_DominantIssues ==
    Evaluated =>
        LET dom == consensus.dominant_issues
            all == consensus.all_issues
        IN  /\ Tags(dom) = {t \in Tags(all) :
                               2 * Count(all, t) >= RejectVotesOf(consensus)}
            /\ Tags(dom) \subseteq Tags(all)
            /\ \A t \in Tags(dom) : Count(dom, t) = 1

\* C6 witness: three not-clean records, one tag dominant and another not.
C6_Witness ==
    /\ Evaluated
    /\ RejectVotesOf(consensus) = 3
    /\ consensus.dominant_issues # <<>>
    /\ Tags(consensus.dominant_issues) # Tags(consensus.all_issues)

\* C7: when every record is clean, the status is ACCEPTED at every
\* threshold and all_issues and dominant_issues are empty.
C7_AllClean ==
    (Evaluated /\ \A i \in DOMAIN validations : CleanConditions(validations[i]))
        => /\ consensus.status = "ACCEPTED"
           /\ consensus.all_issues = <<>>
           /\ consensus.dominant_issues = <<>>

\* C7 witness: three clean records at threshold 1.
C7_Witness ==
    /\ Evaluated
    /\ threshold[1] = threshold[2]
    /\ Len(validations) = 3
    /\ \A i \in DOMAIN validations : CleanConditions(validations[i])

\* C8: when every record has remove_fragment = true, the status is REJECTED
\* at every threshold and REMOVE_FRAGMENT is a dominant issue.
C8_AllRemoved ==
    (Evaluated /\ \A i \in DOMAIN validations :
                     validations[i].remove_fragment = "true")
        => /\ consensus.status = "REJECTED"
           /\ "REMOVE_FRAGMENT" \in Tags(consensus.dominant_issues)

\* C8 witness: two different records that remove the fragment, at
\* threshold 1.
C8_Witness ==
    /\ Evaluated
    /\ threshold[1] = threshold[2]
    /\ \A i \in DOMAIN validations : validations[i].remove_fragment = "true"
    /\ \E i, j \in DOMAIN validations : validations[i] # validations[j]

\* A record whose title decision is absent and that otherwise approves.
TitleOnlyAbsent(v) ==
    /\ v.remove_fragment # "true"
    /\ v.title_validation = Absent
    /\ v.start_time_validation = "approve"
    /\ v.end_time_validation = "approve"
    /\ \A i \in DOMAIN v.concept_validation.actions :
           v.concept_validation.actions[i] = "keep"

\* C9: a record with an absent title decision that otherwise approves is
\* not clean, is one reject vote and adds no tag: against the list without
\* such records, rejectVotes grows by their number, cleanVotes and
\* all_issues stay.
C9_AbsentTitle ==
    Evaluated =>
        LET rest == SelectSeq(validations, LAMBDA v : ~TitleOnlyAbsent(v))
            n == Len(validations) - Len(rest)
            base == determine_consensus(rest, threshold)
        IN  /\ \A i \in DOMAIN validations :
                   TitleOnlyAbsent(validations[i])
                       => is_clean_validation(validations[i]) = "False"
            /\ IF rest = <<>>
               THEN /\ RejectVotesOf(consensus) = n
                    /\ CleanVotesOf(consensus) = 0
                    /\ consensus.all_issues = <<>>
               ELSE /\ RejectVotesOf(consensus) = RejectVotesOf(base) + n
                    /\ CleanVotesOf(consensus) = CleanVotesOf(base)
                    /\ consensus.all_issues = base.all_issues

\* C9 witness: such a record between a clean record and an edited one.
C9_Witness ==
    /\ Evaluated
    /\ Len(validations) = 3
    /\ IsClean(validations[1])
    /\ TitleOnlyAbsent(validations[2])
    /\ validations[3].start_time_validation = "edit"
    /\ consensus.vote_split = "1 vs 2"
    /\ consensus.all_issues = <<"EDIT_START">>

\* The record has a concept entry with action 'remove'.
RemovesConcept(v) ==
    \E i \in DOMAIN v.concept_validation.actions :
        v.concept_validation.actions[i] = "remove"

\* C10: all_issues holds one REMOVE_CONCEPT for each not-clean record that
\* removed at least one concept, and none for any other record.
C10_RemoveConceptOnce ==
    Evaluated =>
        Count(consensus.all_issues, "REMOVE_CONCEPT")
            = Cardinality({i \in DOMAIN validations :
                              /\ ~CleanConditions(validations[i])
                              /\ RemovesConcept(validations[i])})

\* C10 witness: a record that removed two concepts and one that removed
\* one give two REMOVE_CONCEPT entries.
C10_Witness ==
    /\ Evaluated
    /\ \E i, j \in DOMAIN validations :
          /\ Count(validations[i].concept_validation.actions, "remove") = 2
          /\ Count(validations[j].concept_validation.actions, "remove") = 1
    /\ Count(consensus.all_issues, "REMOVE_CONCEPT") = 2

\* C11: is_clean_validation and determine_consensus never raise: every
\* record, a null decision object or a null concept list included, is
\* classified, a record that does not meet the clean conditions is not
\* clean, and a one-record list gets a result.
C11_NeverRaises ==
    pc = "return" =>
        /\ clean \in {"True", "False"}
        /\ ~CleanConditions(val) => clean = "False"
        /\ "status" \in DOMAIN determine_consensus(<<val>>, threshold)

\* C12: the comments of the result are the non-empty comment fields of all
\* records, clean or not, in input order.
C12_Comments ==
    Evaluated =>
        LET cs == [i \in DOMAIN validations |-> validations[i].comment]
        IN  consensus.comments
                = SelectSeq(cs, LAMBDA m : m # Absent /\ m # "")

\* C12 witness: a clean record's comment precedes a not-clean record's,
\* after a record with an empty comment.
C12_Witness ==
    /\ Evaluated
    /\ Len(validations) = 3
    /\ validations[1].comment = ""
    /\ CleanConditions(validations[2])
    /\ ~CleanConditions(validations[3])
    /\ consensus.comments = <<"too long", "ok">>

\* C13: at threshold 0.6, 3 clean records of 5 are ACCEPTED, and when the
\* 2 others both edited the start time EDIT_START is a dominant issue.
C13_ExactThreshold ==
    (/\ Evaluated
     /\ threshold = CONSENSUS_THRESHOLD
     /\ Len(validations) = 5
     /\ Cardinality({i \in DOMAIN validations :
                        CleanConditions(validations[i])}) = 3)
        => /\ consensus.status = "ACCEPTED"
           /\ (\A i \in DOMAIN validations :
                   ~CleanConditions(validations[i])
                       => validations[i].start_time_validation = "edit")
                  => "EDIT_START" \in Tags(consensus.dominant_issues)

\* C13 witness: 3 clean records and 2 that edited the start time.
C13_Witness ==
    /\ Evaluated
    /\ Len(validations) = 5
    /\ Cardinality({i \in DOMAIN validations :
                       CleanConditions(validations[i])}) = 3
    /\ \A i \in DOMAIN validations :
           ~CleanConditions(validations[i])
               => validations[i].start_time_validation = "edit"
    /\ consensus.status = "ACCEPTED"
    /\ consensus.dominant_issues = <<"EDIT_START">>

\* c clean records followed by r records that remove the fragment.
Canonical(c, r) ==
    [i \in 1..(c + r) |-> IF i <= c THEN CleanRec ELSE RemoveFragmentRec]

\* C14: the status is that of any list with the same numbers of clean and
\* not-clean records: every list has the status of the canonical list with
\* its two counts, hence so has every permutation of it.
C14_StatusByCounts ==
    Evaluated =>
        LET c == Cardinality({i \in DOMAIN validations :
                                 CleanConditions(validations[i])})
        IN  consensus.status
                = StatusAt(Canonical(c, Len(validations) - c), threshold)

\* C14 witness: a CONFLICT list that starts with a not-clean record without
\* any issue tag and is not in canonical order.
C14_Witness ==
    /\ Evaluated
    /\ validations[1] = TitleAbsentRec
    /\ \E i \in DOMAIN validations : CleanConditions(validations[i])
    /\ consensus.status = "CONFLICT"

\* The tag of analyze_validations and analyze_discrepancies that stands for
\* a tag of step 5 of the consensus evaluation.
VariantTag(tag) ==
    CASE tag = "REMOVE_FRAGMENT" -> "FRAGMENT_REMOVED"
      [] tag = "EDIT_TITLE" -> "TITLE_EDIT"
      [] tag = "EDIT_START" -> "START_TIME_EDIT"
      [] tag = "EDIT_END" -> "END_TIME_EDIT"
      [] tag = "REMOVE_CONCEPT" -> "CONCEPT_REMOVED"

StepFiveTags ==
    {"REMOVE_FRAGMENT", "EDIT_TITLE", "EDIT_START", "EDIT_END",
     "REMOVE_CONCEPT"}

RowOfVariant ==
    /\ pc \in {"validations_analyzed", "discrepancies_analyzed"}
    /\ rows # <<>>

\* C17: analyze_validations flags a record is_rejected exactly when the
\* record is not clean for is_clean_validation or its comment is longer than
\* 5 characters.
C17_RejectedIff ==
    pc = "validations_analyzed" =>
        (rows[1].is_rejected
            <=> (~CleanConditions(val) \/ Len(rows[1].comment) > 5))

\* C18: for a record that is not clean, analyze_validations and
\* analyze_discrepancies give the tags of step 5 of determine_consensus (up
\* to the spelling of the tag and the order): each tag at most once, the
\* concept tag once however many concepts the record removes.
C18_SameTags ==
    (RowOfVariant /\ is_clean_validation(val) = "False") =>
        \A tag \in StepFiveTags :
            Count(rows[1].issues, VariantTag(tag))
                = Count(record_issues(val), tag)

\* The validations of segment s in the files read so far, in reading order.
LoadedValidations(s) ==
    LET fs == SelectSeq(files, LAMBDA f :
                  /\ f.dir = "validations"
                  /\ f.content.kind = "object"
                  /\ f.content.obj.segment_id = s)
    IN  [i \in DOMAIN fs |-> fs[i].content.obj]

\* validation_map.get(s, [])
MapList(s) == IF s \in DOMAIN validation_map THEN validation_map[s] ELSE <<>>

\* The segments with an id in the enriched files read so far.
LoadedSegmentIds ==
    {s \in SegIds :
        \E i \in DOMAIN files :
            /\ files[i].dir = "enriched"
            /\ \E j \in DOMAIN segments_of(files[i].content) :
                  LET seg == segments_of(files[i].content)[j]
                  IN  "segment_id" \in DOMAIN seg /\ seg.segment_id = s}

\* A loader has returned its maps.
LoadReturned == pc \in {"build", "analyze", "done", "ia_loaded"}

\* C16: every validation file of a segment is one entry of the segment's
\* list, whoever its user is, and the total_votes of the segment's consensus
\* is the number of these files.
C16_DuplicatesCounted ==
    /\ \A s \in SegIds : MapList(s) = LoadedValidations(s)
    /\ (pc \in {"analyze", "done"} /\ rows # <<>>) =>
          consensus.total_votes
              = Len(LoadedValidations(rows[Len(rows)].segment_id))

C16_Witness ==
    /\ pc = "done"
    /\ Len(LoadedValidations("s1")) = 2
    /\ LoadedValidations("s1")[1].user_id = LoadedValidations("s1")[2].user_id
    /\ rows # <<>>
    /\ rows[Len(rows)].segment_id = "s1"
    /\ consensus.total_votes = 2

C20_FailureIsolated ==
    /\ pc # "raised"
    /\ LoadReturned =>
          /\ \A s \in SegIds : MapList(s) = LoadedValidations(s)
          /\ LoadedSegmentIds = DOMAIN enriched_map

\* The records of vs, each with the comment m.
WithComment(vs, m) == [i \in DOMAIN vs |-> [vs[i] EXCEPT !.comment = m]]

\* C21: the result of a record sequence is, but for its comments, the result
\* of the same records with any one comment in place of theirs; so two
\* sequences that differ only in comments have the same status, vote counts,
\* all_issues and dominant_issues.
C21_CommentsIgnored ==
    Evaluated =>
        \A m \in Comments :
            LET other == determine_consensus(WithComment(validations, m),
                                             threshold)
            IN  /\ other.status = consensus.status
                /\ other.vote_split = consensus.vote_split
                /\ other.all_issues = consensus.all_issues
                /\ other.dominant_issues = consensus.dominant_issues

\* C21 witness: an ACCEPTED list in which clean records carry a comment and
\* the comments differ from record to record.
C21_Witness ==
    /\ Evaluated
    /\ consensus.status = "ACCEPTED"
    /\ \E i, j \in DOMAIN validations :
          /\ IsClean(validations[i])
          /\ validations[i].comment = "too long"
          /\ validations[j].comment = Absent
    /\ \E i \in DOMAIN validations : ~IsClean(validations[i])

\* count / total >= t, for a threshold as a fraction.
RatioAtLeast(count, total, t) == count * t[2] >= t[1] * total

\* The status the REJECTED test gives when it is made first.
RejectFirstStatus(vs, t) ==
    IF RatioAtLeast(Len(vs) - NumClean(vs), Len(vs), t) THEN "REJECTED"
    ELSE IF RatioAtLeast(NumClean(vs), Len(vs), t) THEN "ACCEPTED"
    ELSE "CONFLICT"

BothRatiosAtLeast(vs, t) ==
    /\ RatioAtLeast(NumClean(vs), Len(vs), t)
    /\ RatioAtLeast(Len(vs) - NumClean(vs), Len(vs), t)

MoreThanHalf(t) == 2 * t[1] > t[2]

\* C22, as claimed: at every threshold >= 0.5 the clean ratio and the reject
\* ratio never both reach the threshold, and testing REJECTED first gives
\* the status determine_consensus gives.
C22_PrecedenceFromHalf ==
    (Evaluated /\ AtLeastHalf(threshold)) =>
        /\ ~BothRatiosAtLeast(validations, threshold)
        /\ consensus.status = RejectFirstStatus(validations, threshold)

\* C22, amended: at every threshold > 0.5 the two ratios never both reach
\* the threshold and testing REJECTED first gives the same status; at the
\* threshold 0.5 both reach it exactly when the votes are tied, and then
\* the status is ACCEPTED where REJECTED first would give REJECTED.
C22_PrecedenceAboveHalf ==
    Evaluated =>
        /\ MoreThanHalf(threshold) =>
              /\ ~BothRatiosAtLeast(validations, threshold)
              /\ consensus.status = RejectFirstStatus(validations, threshold)
        /\ (AtLeastHalf(threshold) /\ ~MoreThanHalf(threshold)) =>
              /\ BothRatiosAtLeast(validations, threshold)
                    <=> 2 * NumClean(validations) = Len(validations)
              /\ BothRatiosAtLeast(validations, threshold) =>
                    /\ consensus.status = "ACCEPTED"
                    /\ RejectFirstStatus(validations, threshold) = "REJECTED"

\* C22 witness: a tie at the threshold 0.5, where the precedence decides.
C22_Witness ==
    /\ Evaluated
    /\ threshold = <<5, 10>>
    /\ Len(validations) = 4
    /\ NumClean(validations) = 2
    /\ consensus.status = "ACCEPTED"

\* C23, as claimed: for an odd number of reject votes, a tag of all_issues is
\* dominant exactly when its count is at least floor(rejectVotes / 2).
C23_DominantFloor ==
    (Evaluated /\ NumNotClean(validations) % 2 = 1) =>
        \A tag \in Tags(consensus.all_issues) :
            tag \in Tags(consensus.dominant_issues)
                <=> Count(consensus.all_issues, tag)
                        >= NumNotClean(validations) \div 2

\* C23, amended: a tag of all_issues is dominant exactly when its count is
\* at least rejectVotes / 2 rounded up, for odd and for even rejectVotes.
C23_DominantCeiling ==
    Evaluated =>
        \A tag \in Tags(consensus.all_issues) :
            tag \in Tags(consensus.dominant_issues)
                <=> Count(consensus.all_issues, tag)
                        >= (NumNotClean(validations) + 1) \div 2

\* C23 witness: three reject votes, a tag given once that is not dominant
\* and a tag given twice that is.
C23_Witness ==
    /\ Evaluated
    /\ NumNotClean(validations) = 3
    /\ \E t1, t2 \in Tags(consensus.all_issues) :
          /\ Count(consensus.all_issues, t1) = 1
          /\ t1 \notin Tags(consensus.dominant_issues)
          /\ Count(consensus.all_issues, t2) = 2
          /\ t2 \in Tags(consensus.dominant_issues)

\* The not-clean records of vs that give the tag.
Givers(vs, tag) ==
    {i \in DOMAIN vs :
        /\ ~CleanConditions(vs[i])
        /\ CASE tag = "REMOVE_FRAGMENT" -> vs[i].remove_fragment = "true"
             [] tag = "EDIT_TITLE" -> vs[i].title_validation = "edit"
             [] tag = "EDIT_START" -> vs[i].start_time_validation = "edit"
             [] tag = "EDIT_END" -> vs[i].end_time_validation = "edit"}

\* C24: all_issues holds REMOVE_FRAGMENT, EDIT_TITLE, EDIT_START and
\* EDIT_END once for every not-clean record that removes the fragment,
\* edits the title, the start time, the end time; a list of clean records
\* has no tag at all.
C24_AllIssues ==
    Evaluated =>
        /\ \A tag \in {"REMOVE_FRAGMENT", "EDIT_TITLE", "EDIT_START",
                       "EDIT_END"} :
              Count(consensus.all_issues, tag)
                  = Cardinality(Givers(validations, tag))
        /\ (\A i \in DOMAIN validations : CleanConditions(validations[i]))
              => consensus.all_issues = <<>>

\* C24 witness: two records removing the fragment, a record with two of the
\* tags, a not-clean record with no tag and a clean record.
C24_Witness ==
    /\ Evaluated
    /\ Count(consensus.all_issues, "REMOVE_FRAGMENT") = 2
    /\ \E i \in DOMAIN validations : validations[i] = TitleEndEditRec
    /\ \E i \in DOMAIN validations : validations[i] = TitleAbsentRec
    /\ \E i \in DOMAIN validations : CleanConditions(validations[i])

\* C25: a call of determine_consensus, with its calls of
\* is_clean_validation, leaves the list it is given as it was: the same
\* records with the same fields, in the same order.
C25_InputsUnchanged ==
    [][pc' = "evaluated" => validations' = validations]_vars

\* C25 witness: determine_consensus has returned for a list of clean and
\* not-clean records.
C25_Witness ==
    /\ Evaluated
    /\ Len(validations) >= 3
    /\ \E i \in DOMAIN validations : IsClean(validations[i])
    /\ \E i \in DOMAIN validations : validations[i] = TitleEndEditRec

\* C26: at every threshold in (0, 1], a CONFLICT list has a clean and a
\* not-clean record, so it has at least two records.
C26_ConflictIsMixed ==
    (Evaluated /\ consensus.status = "CONFLICT") =>
        /\ \E i \in DOMAIN validations : CleanConditions(validations[i])
        /\ \E i \in DOMAIN validations : ~CleanConditions(validations[i])
        /\ Len(validations) >= 2

\* C26 witness: a CONFLICT at the threshold 1, where one not-clean record
\* among clean ones is enough.
C26_Witness ==
    /\ Evaluated
    /\ threshold = <<10, 10>>
    /\ consensus.status = "CONFLICT"
    /\ Cardinality({i \in DOMAIN validations :
                       ~CleanConditions(validations[i])}) = 1

\* C27: all_issues holds none but the five tags, each at most once per
\* reject vote, so at most 5 * rejectVotes tags in all; dominant issues
\* need a reject vote.
C27_IssueBounds ==
    Evaluated =>
        LET rv == Cardinality({i \in DOMAIN validations :
                                  ~CleanConditions(validations[i])})
        IN  /\ Tags(consensus.all_issues) \subseteq StepFiveTags
            /\ \A tag \in StepFiveTags :
                  Count(consensus.all_issues, tag) <= rv
            /\ Len(consensus.all_issues) <= 5 * rv
            /\ consensus.dominant_issues # <<>> => rv >= 1

\* C27 witness: the five tags from four reject votes, one tag given twice
\* and dominant.
C27_Witness ==
    /\ Evaluated
    /\ Tags(consensus.all_issues) = StepFiveTags
    /\ Len(validations) = 4
    /\ Len(consensus.all_issues) = 6
    /\ consensus.dominant_issues # <<>>

\* load_data_maps has returned its maps.
DataMapsLoaded == pc \in {"build", "analyze", "done"}

\* C28: in the validation_map load_data_maps returns, every list is
\* non-empty and holds validations of its key only; analyze_dataset over it
\* gets no NO_DATA result, does not raise, and returns one row per key.
C28_LoadedMapRows ==
    /\ DataMapsLoaded =>
          \A s \in DOMAIN validation_map :
              /\ validation_map[s] # <<>>
              /\ \A i \in DOMAIN validation_map[s] :
                    validation_map[s][i].segment_id = s
    /\ pc = "raised" => consensus = NoResult
    /\ "status" \in DOMAIN consensus => consensus.status # "NO_DATA"
    /\ pc = "done" =>
          /\ Len(rows) = Cardinality(DOMAIN validation_map)
          /\ \A s \in DOMAIN validation_map :
                Cardinality({i \in DOMAIN rows : rows[i].segment_id = s}) = 1

\* analyze_discrepancies has passed over val without raising; it made a row
\* exactly when is_validation_clean(val) was False.
DiscrepanciesAnalyzed == pc = "discrepancies_analyzed"
ValidationClean == rows = <<>>

\* A comment that is absent, null, empty or made of blanks.
BlankComment(m) == m \in {Absent, Null, "", " ", "  "}

\* C29: a record clean for is_validation_clean is clean for
\* is_clean_validation; the two agree on a record whose comment is absent,
\* empty or blank; they differ exactly on the records that meet the five
\* conditions of a clean record and carry a comment that is not blank.
C29_CleanPredicates ==
    DiscrepanciesAnalyzed =>
        /\ ValidationClean => IsClean(val)
        /\ BlankComment(val.comment) => (ValidationClean <=> IsClean(val))
        /\ (ValidationClean # IsClean(val))
              <=> (CleanConditions(val) /\ ~BlankComment(val.comment))

\* C29 witness: a record approving everything with a comment, clean for
\* is_clean_validation and reported by analyze_discrepancies.
C29_Witness ==
    /\ DiscrepanciesAnalyzed
    /\ CleanConditions(val)
    /\ val.comment = "123456"
    /\ IsClean(val)
    /\ ~ValidationClean

\* enriched_map.get(s) is a non-empty dict.
HasMetadata(s) == s \in DOMAIN enriched_map /\ DOMAIN enriched_map[s] # {}

\* A validation that is_validation_clean takes for not clean: it fails one
\* of the five conditions or carries a comment that is not blank.
NotCleanForDiscrepancies(v) ==
    ~CleanConditions(v) \/ ~BlankComment(v.comment)

\* The comments of the rows of segment s, in the order of the rows.
RowComments(s) ==
    LET rs == SelectSeq(rows, LAMBDA r : r.segment_id = s)
    IN  [i \in DOMAIN rs |-> rs[i].comment]

\* The comments of the validations of s that are not clean, in their order.
NotCleanComments(s) ==
    LET vs == SelectSeq(validation_map[s], NotCleanForDiscrepancies)
    IN  [i \in DOMAIN vs |-> IF vs[i].comment = Absent THEN ""
                             ELSE vs[i].comment]

\* C30: analyze_discrepancies returns, for a segment with non-empty
\* metadata, one row for each of its validations that is not clean, and no
\* row for a segment without metadata; analyze_dataset returns a row with
\* source_file 'unknown' for a segment without metadata.
C30_RowsAndMetadata ==
    /\ pc = "ia_done" =>
          /\ \A s \in DOMAIN validation_map :
                RowComments(s) = IF HasMetadata(s) THEN NotCleanComments(s)
                                 ELSE <<>>
          /\ \A i \in DOMAIN rows : rows[i].segment_id \in DOMAIN validation_map
    /\ pc = "done" =>
          \A s \in DOMAIN validation_map :
              ~HasMetadata(s) =>
                  \E i \in DOMAIN rows :
                      /\ rows[i].segment_id = s
                      /\ rows[i].source_file = "unknown"

\* C30 witness: analyze_discrepancies has returned a row for s1, none for
\* a clean validation of s1, and none for the not-clean validations of s2,
\* which has no metadata.
C30_Witness ==
    /\ pc = "ia_done"
    /\ DOMAIN validation_map = SegIds
    /\ ~HasMetadata("s2")
    /\ \E i \in DOMAIN validation_map["s2"] :
          NotCleanForDiscrepancies(validation_map["s2"][i])
    /\ \E i \in DOMAIN validation_map["s1"] :
          validation_map["s1"][i] = CleanRec
    /\ Len(rows) = 1
    /\ rows[1].segment_id = "s1"
    /\ rows[1].comment = "too long"

=============================================================================
